---- MODULE Spec2Model ----
(***************************************************************************)
(* Model of rumqttc/src/tls.rs: the two connector builders                 *)
(* (rustls_connector, native_tls_connector) as operators computed the way  *)
(* the code computes them, and tls_connect as a state machine with one     *)
(* action per statement of its body and per outcome of its two await       *)
(* points.                                                                 *)
(***************************************************************************)
EXTENDS Integers, Sequences, FiniteSets, TLC

VARIABLES build, addr, cfg, pc, tcp, connector, result, trace

vars == <<build, addr, cfg, pc, tcp, connector, result, trace>>

(* ------------------------------ bounds -------------------------------- *)

MaxCa == 2
MaxAlpn == 2
MaxIdent == 1

(* ------------------------------ inputs -------------------------------- *)

\* Sequences over S of length at most n.
SeqUpTo(S, n) == UNION {[1..k -> S] : k \in 0..n}

\* Cargo features the crate is compiled with (the #[cfg(feature = ...)] lines).
Builds == {"use-rustls", "use-native-tls", "both"}

HasRustls(b) == b \in {"use-rustls", "both"}

HasNative(b) == b \in {"use-native-tls", "both"}

Variants == {"Simple", "Rustls", "Native", "CustomNativeTls"}

RustlsVariants == {"Simple", "Rustls"}

NativeVariants == {"Native", "CustomNativeTls"}

\* One PEM section of a CA bundle: a certificate from which a trust anchor
\* derives, a certificate from which none derives, or a section whose base64
\* body does not decode.  Bytes outside any section yield no item at all.
CaItems == {"valid", "invalid", "badpem"}

\* One PEM section of the client certificate input.
CertItems == {"cert", "badpem"}

\* One PEM section of the client key input: an RSA PRIVATE KEY section, a
\* PRIVATE KEY (PKCS#8) section holding a supported key, a PRIVATE KEY section
\* holding DER that no signing scheme accepts, or an undecodable section.
KeyItems == {"rsa", "pkcs8", "pkcs8_junk", "badpem"}

Protocols == {"mqtt", "h2"}

Hosts == {"broker.example.com", "bad host"}

\* The files the PKCS#12 path may name.
Paths == {"/missing.p12", "/dir", "/garbage.bin", "/id.p12"}

FileKind(path) ==
    CASE path = "/missing.p12" -> "missing"
      [] path = "/dir" -> "unreadable"
      [] path = "/garbage.bin" -> "garbage"
      [] OTHER -> "archive"

NoAlpn == [some |-> FALSE, val |-> <<>>]

NoClient == [some |-> FALSE, certs |-> <<>>, key |-> "RSA", keypem |-> <<>>]

\* ALPN lists name each protocol once.
AlpnLists == {a \in SeqUpTo(Protocols, MaxAlpn) : \A i, j \in 1..Len(a) : a[i] = a[j] => i = j}

AlpnOptions == {NoAlpn} \cup {[some |-> TRUE, val |-> a] : a \in AlpnLists}

ClientOptions ==
    {NoClient} \cup
    {[some |-> TRUE, certs |-> c, key |-> t, keypem |-> k] :
        c \in SeqUpTo(CertItems, MaxIdent), t \in {"RSA", "ECC"},
        k \in SeqUpTo(KeyItems, MaxIdent)}

Blank ==
    [variant |-> "Native", ca |-> <<>>, alpn |-> NoAlpn, client_auth |-> NoClient,
     pkcs12_path |-> "-", pkcs12_pass |-> FALSE, backend_ok |-> TRUE]

\* TlsConfiguration values.  pkcs12_pass is whether the passphrase is the
\* archive's; backend_ok is whether the platform TLS engine initialises.
Configs ==
    {[Blank EXCEPT !.variant = "Simple", !.ca = ca, !.alpn = al, !.client_auth = cl] :
        ca \in SeqUpTo(CaItems, MaxCa), al \in AlpnOptions, cl \in ClientOptions}
    \cup {[Blank EXCEPT !.variant = "Rustls"]}
    \cup {[Blank EXCEPT !.variant = "Native", !.backend_ok = ok] : ok \in BOOLEAN}
    \cup {[Blank EXCEPT !.variant = "CustomNativeTls", !.pkcs12_path = p,
                        !.pkcs12_pass = pw, !.backend_ok = ok] :
        p \in Paths, pw \in BOOLEAN, ok \in BOOLEAN}

(* ------------------------------ results ------------------------------- *)

NoConnector ==
    [kind |-> "none", roots |-> <<>>, has_identity |-> FALSE, id_certs |-> <<>>,
     id_key |-> "-", alpn |-> <<>>]

Ok(v) == [tag |-> "Ok", err |-> "-", arg |-> "-", val |-> v]

Err(kind, a) == [tag |-> "Err", err |-> kind, arg |-> a, val |-> NoConnector]

Panic == [tag |-> "Panic", err |-> "-", arg |-> "-", val |-> NoConnector]

Pending == [tag |-> "Pending", err |-> "-", arg |-> "-", val |-> NoConnector]

Cancelled == [tag |-> "Cancelled", err |-> "-", arg |-> "-", val |-> NoConnector]

(* ------------------------- external parsers --------------------------- *)

\* rustls_pemfile reads sections in order and fails with an io::Error at a
\* section that does not decode; otherwise it returns, in order, the sections
\* of the kinds asked for and skips the others.
pemfile_read(items, kinds) ==
    IF \E i \in 1..Len(items) : items[i] = "badpem"
    THEN [ok |-> FALSE, items |-> <<>>]
    ELSE [ok |-> TRUE, items |-> SelectSeq(items, LAMBDA x : x \in kinds)]

pemfile_certs(items) == pemfile_read(items, {"valid", "invalid", "cert"})

rsa_private_keys(items) == pemfile_read(items, {"rsa"})

pkcs8_private_keys(items) == pemfile_read(items, {"pkcs8", "pkcs8_junk"})

\* webpki::TrustAnchor::try_from_cert_der succeeds on a structurally valid
\* certificate only.
try_from_cert_der(cert) == cert = "valid"

\* Iterator::map_while: the results up to, and not including, the first
\* element the closure maps to None.
map_while(certs) ==
    LET n == CHOOSE k \in 0..Len(certs) :
                 /\ \A i \in 1..k : try_from_cert_der(certs[i])
                 /\ (k < Len(certs) => ~try_from_cert_der(certs[k + 1]))
    IN SubSeq(certs, 1, n)

\* ClientConfig::with_single_cert accepts any certificate chain and fails
\* only when no supported signing scheme takes the key.
with_single_cert_ok(certs, key) == key \in {"rsa", "pkcs8"}

\* alpn_protocols of a ClientConfig fresh from the builder.
DefaultAlpn == <<>>

\* ServerName::try_from(addr).
ServerName_ok(a) == a = "broker.example.com"

(* ------------------------- rustls_connector --------------------------- *)

\* Lines 142-171: the client identity, or the error the block returns with.
client_identity(client) ==
    IF ~client.some
    THEN Ok([NoConnector EXCEPT !.kind = "identity"])
    ELSE LET certs == pemfile_certs(client.certs)
             read_keys == IF client.key = "RSA"
                          THEN rsa_private_keys(client.keypem)
                          ELSE pkcs8_private_keys(client.keypem)
         IN IF ~certs.ok THEN Err("Io", "-")
            ELSE IF ~read_keys.ok THEN Err("NoValidCertInChain", "-")
            ELSE IF read_keys.items = <<>> THEN Err("NoValidCertInChain", "-")
            ELSE IF ~with_single_cert_ok(certs.items, Head(read_keys.items))
                 THEN Err("Rustls", "-")
            ELSE Ok([NoConnector EXCEPT !.kind = "identity", !.has_identity = TRUE,
                                        !.id_certs = certs.items,
                                        !.id_key = Head(read_keys.items)])

\* set_alpn with each supplied protocol inserted at the front of the list.
set_alpn_prepend(current, alpn) ==
    IF alpn.some
    THEN [i \in 1..Len(alpn.val) |-> alpn.val[Len(alpn.val) + 1 - i]] \o current
    ELSE current

\* Lines 174-176.
set_alpn(current, alpn) == IF alpn.some THEN current \o alpn.val ELSE current

\* Lines 116-135: the root store built from the CA bundle.
root_cert_store(ca) ==
    LET certs == pemfile_certs(ca)
    IN IF ~certs.ok THEN [ok |-> FALSE, items |-> <<>>]
       ELSE [ok |-> TRUE, items |-> map_while(certs.items)]

rustls_connector(c) ==
    CASE c.variant = "Simple" ->
            LET store == root_cert_store(c.ca)
                ident == client_identity(c.client_auth)
            IN IF ~store.ok THEN Err("Io", "-")
               ELSE IF store.items = <<>> THEN Err("NoValidCertInChain", "-")
               ELSE IF ident.tag = "Err" THEN ident
               ELSE Ok([ident.val EXCEPT !.kind = "rustls", !.roots = store.items,
                                         !.alpn = set_alpn(DefaultAlpn, c.alpn)])
      [] c.variant = "Rustls" -> Ok([NoConnector EXCEPT !.kind = "rustls-prebuilt"])
      [] OTHER -> Panic

(* ----------------------- native_tls_connector ------------------------- *)

native_tls_connector(c) ==
    CASE c.variant = "Native" ->
            IF c.backend_ok THEN Ok([NoConnector EXCEPT !.kind = "native"])
            ELSE Err("NativeTls", "-")
      [] c.variant = "CustomNativeTls" ->
            LET file == FileKind(c.pkcs12_path)
            IN IF file = "missing" THEN Err("CertNotFound", c.pkcs12_path)
               ELSE IF file = "unreadable" THEN Err("InvalidCert", c.pkcs12_path)
               ELSE IF ~(file = "archive" /\ c.pkcs12_pass) THEN Err("InvalidPass", "-")
               ELSE IF ~c.backend_ok THEN Err("NativeTls", "-")
               ELSE Ok([NoConnector EXCEPT !.kind = "native", !.has_identity = TRUE,
                                           !.id_certs = <<"pkcs12">>, !.id_key = "pkcs12"])
      [] OTHER -> Panic

(* ---------------------------- tls_connect ----------------------------- *)

Init ==
    /\ build \in Builds
    /\ addr \in Hosts
    /\ cfg \in Configs
    /\ pc = "start"
    /\ tcp = "none"
    /\ connector = NoConnector
    /\ result = Pending
    /\ trace = <<>>

\* drop_tcp with the stream forgotten instead of dropped.
drop_tcp_forget(t) == t

\* Leaving the function body drops every local: a TcpStream still owned by
\* the call is closed.
drop_tcp(t) == IF t = "open" THEN "closed" ELSE t

\* Return from the body with r.
Return(r) ==
    /\ result' = r
    /\ pc' = "done"
    /\ tcp' = drop_tcp(tcp)

\* TcpConnectBegin with the connector built, and its error returned, before
\* the connect is attempted.
TcpConnectBegin_validate_first ==
    /\ pc = "start"
    /\ LET r == IF cfg.variant \in RustlsVariants THEN rustls_connector(cfg)
                ELSE native_tls_connector(cfg)
       IN IF r.tag = "Err"
          THEN /\ Return(r)
               /\ UNCHANGED trace
          ELSE /\ pc' = "connecting"
               /\ trace' = Append(trace, "tcp_connect")
               /\ UNCHANGED <<tcp, result>>
    /\ UNCHANGED <<build, addr, cfg, connector>>

\* Line 194, up to the suspension.
TcpConnectBegin ==
    /\ pc = "start"
    /\ pc' = "connecting"
    /\ trace' = Append(trace, "tcp_connect")
    /\ UNCHANGED <<build, addr, cfg, tcp, connector, result>>

\* Line 194, resumed with a stream.
TcpConnectOk ==
    /\ pc = "connecting"
    /\ tcp' = "open"
    /\ pc' = "dispatch"
    /\ UNCHANGED <<build, addr, cfg, connector, result, trace>>

\* Line 194, resumed with an io::Error; `?` returns it.
TcpConnectFail ==
    /\ pc = "connecting"
    /\ Return(Err("Io", "-"))
    /\ UNCHANGED <<build, addr, cfg, connector, trace>>

\* Line 199.
BuildRustls ==
    /\ pc = "dispatch"
    /\ HasRustls(build)
    /\ cfg.variant \in RustlsVariants
    /\ trace' = Append(trace, "connector")
    /\ LET r == rustls_connector(cfg)
       IN IF r.tag = "Ok"
          THEN /\ connector' = r.val
               /\ pc' = "server_name"
               /\ UNCHANGED <<tcp, result>>
          ELSE /\ Return(r)
               /\ UNCHANGED connector
    /\ UNCHANGED <<build, addr, cfg>>

\* ServerNameStep with the result of the conversion ignored.
ServerNameStep_unchecked ==
    /\ pc = "server_name"
    /\ trace' = Append(trace, "server_name")
    /\ pc' = "handshake"
    /\ UNCHANGED <<build, addr, cfg, connector, tcp, result>>

\* Line 200.
ServerNameStep ==
    /\ pc = "server_name"
    /\ trace' = Append(trace, "server_name")
    /\ IF ServerName_ok(addr)
       THEN /\ pc' = "handshake"
            /\ UNCHANGED <<tcp, result>>
       ELSE Return(Err("DNSName", "-"))
    /\ UNCHANGED <<build, addr, cfg, connector>>

\* Line 205.
BuildNative ==
    /\ pc = "dispatch"
    /\ HasNative(build)
    /\ cfg.variant \in NativeVariants
    /\ trace' = Append(trace, "connector")
    /\ LET r == native_tls_connector(cfg)
       IN IF r.tag = "Ok"
          THEN /\ connector' = r.val
               /\ pc' = "handshake"
               /\ UNCHANGED <<tcp, result>>
          ELSE /\ Return(r)
               /\ UNCHANGED connector
    /\ UNCHANGED <<build, addr, cfg>>

\* UnknownBackend reported as a recoverable error.
UnknownBackend_as_error ==
    /\ pc = "dispatch"
    /\ ~(HasRustls(build) /\ cfg.variant \in RustlsVariants)
    /\ ~(HasNative(build) /\ cfg.variant \in NativeVariants)
    /\ Return(Err("NoValidCertInChain", "-"))
    /\ UNCHANGED <<build, addr, cfg, connector, trace>>

\* Line 209: no arm compiled into this build takes the variant.
UnknownBackend ==
    /\ pc = "dispatch"
    /\ ~(HasRustls(build) /\ cfg.variant \in RustlsVariants)
    /\ ~(HasNative(build) /\ cfg.variant \in NativeVariants)
    /\ Return(Panic)
    /\ UNCHANGED <<build, addr, cfg, connector, trace>>

\* Lines 201 and 206, up to the suspension: the stream moves into the
\* handshake future.
HandshakeBegin ==
    /\ pc = "handshake"
    /\ pc' = "handshaking"
    /\ tcp' = "in_handshake"
    /\ trace' = Append(trace, "handshake")
    /\ UNCHANGED <<build, addr, cfg, connector, result>>

\* The handshake completes: the encrypted stream owns the socket.
HandshakeOk ==
    /\ pc = "handshaking"
    /\ tcp' = "encrypted"
    /\ result' = Ok(connector)
    /\ pc' = "done"
    /\ UNCHANGED <<build, addr, cfg, connector, trace>>

\* The handshake fails: the future drops the stream it was given, and `?`
\* returns io::Error (rustls) or native_tls::Error (native-tls).
HandshakeFail ==
    /\ pc = "handshaking"
    /\ tcp' = "closed"
    /\ result' = IF connector.kind = "native" THEN Err("NativeTls", "-") ELSE Err("Io", "-")
    /\ pc' = "done"
    /\ UNCHANGED <<build, addr, cfg, connector, trace>>

\* The caller drops the future while it is suspended at either await.
Cancel ==
    /\ pc \in {"connecting", "handshaking"}
    /\ tcp' = IF tcp = "in_handshake" THEN "closed" ELSE drop_tcp(tcp)
    /\ result' = Cancelled
    /\ pc' = "done"
    /\ UNCHANGED <<build, addr, cfg, connector, trace>>

Next ==
    \/ TcpConnectBegin
    \/ TcpConnectOk
    \/ TcpConnectFail
    \/ BuildRustls
    \/ ServerNameStep
    \/ BuildNative
    \/ UnknownBackend
    \/ HandshakeBegin
    \/ HandshakeOk
    \/ HandshakeFail
    \/ Cancel

Spec == Init /\ [][Next]_vars

(* ------------------------------ claims -------------------------------- *)

Done == pc = "done"

Ran(ev) == \E i \in 1..Len(trace) : trace[i] = ev

IsPrefix(a, b) == Len(a) <= Len(b) /\ SubSeq(b, 1, Len(a)) = a

\* The compiled match of tls_connect has no arm for the variant.
Mismatch ==
    /\ ~(HasRustls(build) /\ cfg.variant \in RustlsVariants)
    /\ ~(HasNative(build) /\ cfg.variant \in NativeVariants)

SoftwarePath == HasRustls(build) /\ cfg.variant \in RustlsVariants

ValidCerts(ca) == SelectSeq(ca, LAMBDA x : x = "valid")

Decodable(ca) == \A i \in 1..Len(ca) : ca[i] # "badpem"

\* The two rejections C1 names: a Simple CA bundle with no valid certificate,
\* and a PKCS#12 archive opened with the wrong passphrase.
RejectedConfig ==
    \/ /\ SoftwarePath
       /\ cfg.variant = "Simple"
       /\ ValidCerts(cfg.ca) = <<>>
       /\ Decodable(cfg.ca)
    \/ /\ HasNative(build)
       /\ cfg.variant = "CustomNativeTls"
       /\ FileKind(cfg.pkcs12_path) = "archive"
       /\ ~cfg.pkcs12_pass

ConfigError ==
    /\ Done
    /\ result.tag = "Err"
    /\ result.err \in {"NoValidCertInChain", "InvalidPass"}
    /\ RejectedConfig

\* C1 as stated: an execution that ends with the configuration error of a
\* rejected configuration has attempted no TCP connect.
C1_NoConnectBeforeConfigError == ConfigError => ~Ran("tcp_connect")

\* C1 as amended: an execution that ends with the configuration error of a
\* rejected configuration has done exactly the plain TCP connect and then the
\* connector construction, has started no handshake, and has closed the stream
\* it opened.
C1_ConfigErrorAfterConnect ==
    /\ ConfigError => trace = <<"tcp_connect", "connector">> /\ tcp = "closed"
    /\ (RejectedConfig /\ pc \in {"start", "connecting"}) => result.tag = "Pending"

C1_Witness == ConfigError /\ cfg.variant = "Simple" /\ cfg.ca = <<>>

\* C2: a Simple CA bundle of decodable certificates with a valid one at any
\* position gives a root store holding an anchor for every valid certificate,
\* and construction gets past the is_empty check.
C2_EveryValidCertAnchored ==
    (/\ Ran("connector")
     /\ SoftwarePath
     /\ cfg.variant = "Simple"
     /\ Decodable(cfg.ca)
     /\ ValidCerts(cfg.ca) # <<>>
     /\ client_identity(cfg.client_auth).tag = "Ok")
    => /\ connector.kind = "rustls"
       /\ connector.roots = ValidCerts(cfg.ca)

\* C3: the outcome of native_tls_connector on CustomNativeTls is decided by
\* the archive: missing file -> CertNotFound(path), file that is no PKCS#12
\* archive -> InvalidCert(path), archive with the wrong passphrase ->
\* InvalidPass, archive with the right passphrase -> a connector.
C3_ArchiveOutcome ==
    (/\ Ran("connector")
     /\ HasNative(build)
     /\ cfg.variant = "CustomNativeTls"
     /\ cfg.backend_ok)
    => LET file == FileKind(cfg.pkcs12_path)
       IN /\ file = "missing" =>
                result.tag = "Err" /\ result.err = "CertNotFound"
                /\ result.arg = cfg.pkcs12_path
          /\ file = "garbage" =>
                result.tag = "Err" /\ result.err = "InvalidCert"
                /\ result.arg = cfg.pkcs12_path
          /\ (file = "archive" /\ ~cfg.pkcs12_pass) =>
                result.tag = "Err" /\ result.err = "InvalidPass"
          /\ (file = "archive" /\ cfg.pkcs12_pass) => connector.kind = "native"

\* The CA bundle of a Simple configuration passes lines 116-135.
CaAccepted == root_cert_store(cfg.ca).ok /\ root_cert_store(cfg.ca).items # <<>>

BuilderFailed ==
    /\ Done
    /\ result.tag = "Err"
    /\ trace = <<"tcp_connect", "connector">>
    /\ SoftwarePath
    /\ cfg.variant = "Simple"

\* C4: every failure of client-identity processing in rustls_connector is
\* reported as NoValidCertInChain.
C4_IdentityFailureIsNoValidCert ==
    (BuilderFailed /\ CaAccepted /\ cfg.client_auth.some)
    => result.err = "NoValidCertInChain"

\* C5: the negotiation list of a connector built from a Simple configuration
\* is the backend default followed by the supplied protocols in their order,
\* and is the backend default when none is supplied.
C5_AlpnAppended ==
    connector.kind = "rustls"
    => connector.alpn = IF cfg.alpn.some THEN DefaultAlpn \o cfg.alpn.val
                        ELSE DefaultAlpn

C5_Witness ==
    /\ connector.kind = "rustls"
    /\ cfg.alpn.some
    /\ connector.alpn = <<"mqtt", "h2">>

\* C6: a call that has ended without returning the encrypted stream holds no
\* open socket: the stream it opened, if any, is closed.
C6_NoLeakedStream ==
    (Done /\ result.tag # "Ok") => tcp \in {"none", "closed"}

C6_Witness == Done /\ result.tag = "Cancelled" /\ Ran("handshake") /\ tcp = "closed"

\* C7 as stated: a variant foreign to the compiled backend never yields a
\* value of the Error type, and a variant of the compiled backend never
\* panics.
C7_MismatchNeverReturnsError ==
    /\ Mismatch => result.tag # "Err"
    /\ ~Mismatch => result.tag # "Panic"

\* C7 as amended: with a variant foreign to the compiled backend tls_connect
\* never returns a stream, panics once the plain connect has succeeded, and
\* returns an Error only as the Io error of a failed plain connect; each
\* builder panics exactly on the variants of the other backend; a variant of
\* the compiled backend never panics.
C7_MismatchPanicsAfterConnect ==
    /\ (Mismatch /\ Done) =>
          \/ result.tag = "Panic" /\ trace = <<"tcp_connect">>
          \/ result.tag = "Cancelled" /\ tcp = "none"
          \/ result.tag = "Err" /\ result.err = "Io" /\ tcp = "none"
    /\ (Mismatch /\ tcp # "none") => pc = "dispatch" \/ result.tag = "Panic"
    /\ ~Mismatch => result.tag # "Panic"
    /\ (rustls_connector(cfg).tag = "Panic") = (cfg.variant \notin RustlsVariants)
    /\ (native_tls_connector(cfg).tag = "Panic") = (cfg.variant \notin NativeVariants)

C7_Witness == Mismatch /\ Done /\ result.tag = "Panic" /\ tcp = "closed"

\* C8: when processing of the CA bundle of a Simple configuration fails, the
\* error returned is NoValidCertInChain.
C8_CaFailureIsNoValidCert ==
    (BuilderFailed /\ ~CaAccepted) => result.err = "NoValidCertInChain"

StepOrder == <<"tcp_connect", "connector", "server_name", "handshake">>

\* C9: on the software-stack path the steps run in the order plain connect,
\* connector construction, server-name derivation, handshake, each only after
\* the earlier ones succeeded; an invalid host fails with the DNS-name error
\* after the connect and before any handshake; a failed plain connect returns
\* the I/O error without constructing a connector.
C9_FixedStepOrder ==
    SoftwarePath =>
        /\ IsPrefix(trace, StepOrder)
        /\ Ran("connector") => tcp # "none"
        /\ Ran("server_name") => connector.kind \in {"rustls", "rustls-prebuilt"}
        /\ Ran("handshake") => ServerName_ok(addr)
        /\ (Ran("server_name") /\ ~ServerName_ok(addr)) =>
              /\ Done
              /\ result.tag = "Err" /\ result.err = "DNSName"
              /\ trace = <<"tcp_connect", "connector", "server_name">>
        /\ (Done /\ result.tag = "Err" /\ trace = <<"tcp_connect">>) =>
              result.err = "Io" /\ connector = NoConnector /\ tcp = "none"

C9_Witness ==
    /\ SoftwarePath
    /\ Done
    /\ result.tag = "Err"
    /\ result.err = "DNSName"
    /\ tcp = "closed"

\* C10: a connector built from a Simple configuration with a client identity
\* has at least one parsed certificate and at least one parsed key installed.
C10_IdentityHasCertAndKey ==
    (connector.kind = "rustls" /\ cfg.client_auth.some)
    => /\ connector.has_identity
       /\ Len(connector.id_certs) >= 1
       /\ connector.id_key \in {"rsa", "pkcs8"}

====
